---- MODULE Spec2Model ----
(***************************************************************************)
(* The recording lifecycle controller of the VoiceRecorder component       *)
(* (src/src/components/VoiceRecorder.tsx; src/unnamed/part_000 is an       *)
(* earlier revision of the same component with the same controller code).  *)
(*                                                                         *)
(* React state and refs are the variables of the same names.  The host     *)
(* (browser) side is modelled by what the handlers can observe of it: the  *)
(* getUserMedia requests in flight, the MediaRecorder objects and their    *)
(* states, the streams whose tracks are live, the setInterval handles that *)
(* are active, the queued MediaRecorder stop tasks and the pending         *)
(* setTimeout callbacks of simulateTranscription.  Unmounting runs the     *)
(* cleanup of the component's effect; after it no control exists and the   *)
(* state setters no longer change the component's state, while the refs    *)
(* and the host callbacks already scheduled live on.                       *)
(***************************************************************************)
EXTENDS Integers, Sequences, FiniteSets, TLC

VARIABLES
    isRecording,      \* useState(false)                       line 10
    isPaused,         \* useState(false)                       line 11
    recordingTime,    \* useState(0)                           line 12
    transcription,    \* useState(''): 0 is '', 1..3 a sample  line 13
    audioBlob,        \* useState<Blob | null>(null)           line 14
    mediaRecorderRef, \* useRef(null): 0 is null, else a recorder id
    streamRef,        \* useRef(null): 0 is null, else a stream id
    chunksRef,        \* useRef([]): sequence of chunks
    timerRef,         \* useRef(null): 0 is null, else an interval handle
    recorders,        \* host: recorders[r] is the state of MediaRecorder r
    liveStreams,      \* host: streams with a track that has not been stopped
    intervals,        \* host: setInterval handles not yet cleared
    pendingStarts,    \* host: getUserMedia promises not yet settled
    stopTasks,        \* host: recorders whose queued stop task has not run
    timeouts,         \* host: pending setTimeout callbacks (simulateTranscription)
    toasts,           \* number of toast() calls, by title
    unmounted,        \* the component was unmounted (the effect's cleanup ran)
    seconds,          \* the argument of a formatTime call                line 43
    formatted,        \* what that call returned, << >> before the call   line 46
    delivered,        \* history: delivered[r] is the non-empty chunks recorder r emitted
    stopped,          \* history: a recording was stopped and neither reset nor restarted
    refused           \* history: the user request that no rendered control dispatched, or "none"

vars == << isRecording, isPaused, recordingTime, transcription, audioBlob,
           mediaRecorderRef, streamRef, chunksRef, timerRef, recorders,
           liveStreams, intervals, pendingStarts, stopTasks,
           timeouts, toasts, unmounted, seconds, formatted,
           delivered, stopped, refused >>

\* The argument and the result of the formatTime call under study.
fmtVars == << seconds, formatted >>

\* Everything the component and the host hold: vars without the history variables.
progVars == << isRecording, isPaused, recordingTime, transcription, audioBlob,
               mediaRecorderRef, streamRef, chunksRef, timerRef, recorders,
               liveStreams, intervals, pendingStarts, stopTasks,
               timeouts, toasts >>

----------------------------------------------------------------------------
\* Bounds of the model.
MaxStarts == 2     \* startRecording invocations
MaxTime == 2       \* value recordingTime may reach
MaxChunks == 2     \* non-empty data chunks the host emits
MaxToggles == 2    \* pause/resume toggles that take effect
MaxSeconds == 3700 \* largest argument given to formatTime

\* sampleTranscriptions.length
NumSamples == 3

ToastKinds == {"started", "error", "paused", "resumed", "stopped", "transcribed"}

Null == [isNull |-> TRUE, chunks |-> << >>]
Blob(cs) == [isNull |-> FALSE, chunks |-> cs]

\* The lifecycle state the component shows (status badge), with Stopped told
\* apart from Idle by the history of the session.
State ==
    IF isRecording
    THEN (IF isPaused THEN "Paused" ELSE "Recording")
    ELSE (IF stopped THEN "Stopped" ELSE "Idle")

\* A state setter: React drops the update once the component is unmounted.
SetState(old, new) == IF unmounted THEN old ELSE new

Toast(t, kind) == [t EXCEPT ![kind] = @ + 1]

TotalChunks == LET RECURSIVE Sum(_)
                   Sum(i) == IF i = 0 THEN 0 ELSE Len(delivered[i]) + Sum(i - 1)
               IN Sum(Len(delivered))

----------------------------------------------------------------------------
Init ==
    /\ isRecording = FALSE
    /\ isPaused = FALSE
    /\ recordingTime = 0
    /\ transcription = 0
    /\ audioBlob = Null
    /\ mediaRecorderRef = 0
    /\ streamRef = 0
    /\ chunksRef = << >>
    /\ timerRef = 0
    /\ recorders = << >>
    /\ liveStreams = {}
    /\ intervals = {}
    /\ pendingStarts = 0
    /\ stopTasks = {}
    /\ timeouts = 0
    /\ toasts = [k \in ToastKinds |-> 0]
    /\ unmounted = FALSE
    /\ seconds = 0
    /\ formatted = << >>
    /\ delivered = << >>
    /\ stopped = FALSE
    /\ refused = "none"

----------------------------------------------------------------------------
\* What the rendered controls dispatch to (the JSX of the component).

\* The microphone's onClick and the "Iniciar Gravacao" button: !isRecording.
StartOffered == ~isRecording

\* The pause button dispatching whatever its label reads.
PauseOffered_AnyLabel == isRecording

\* The pause button is rendered when isRecording; it reads "Pausar" when !isPaused.
PauseOffered == isRecording /\ ~isPaused

\* The same button reads "Retomar" when isPaused.
ResumeOffered == isRecording /\ isPaused

\* The "Finalizar" button is rendered when isRecording.
StopOffered == isRecording

\* The reset button rendered without the "&& !isRecording" of its condition.
ResetOffered_ShownWhileRecording ==
    recordingTime > 0 \/ transcription # 0 \/ ~audioBlob.isNull

\* The "Resetar" button: (recordingTime > 0 || transcription || audioBlob) && !isRecording.
ResetOffered ==
    /\ (recordingTime > 0 \/ transcription # 0 \/ ~audioBlob.isNull)
    /\ ~isRecording

----------------------------------------------------------------------------
\* The handlers of the component.

\* The handle setInterval returns: one that names no active interval.
\* Number.prototype.toString(): the decimal digits of n, most significant first,
\* as a sequence of one-character strings.
Digits == << "0", "1", "2", "3", "4", "5", "6", "7", "8", "9" >>

RECURSIVE toString(_)
toString(n) ==
    IF n < 10 THEN << Digits[n + 1] >>
    ELSE toString(n \div 10) \o << Digits[(n % 10) + 1] >>

\* String.prototype.padStart(targetLength, padString) for a one-character
\* padString: str itself when it is already long enough, never truncated.
RECURSIVE padStart(_, _, _)
padStart(str, targetLength, padString) ==
    IF Len(str) >= targetLength THEN str
    ELSE padStart(<< padString >> \o str, targetLength, padString)

\* formatTime without the padding of the seconds field.
formatTime_SecondsNotPadded(secs) ==
    padStart(toString(secs \div 60), 2, "0") \o << ":" >> \o toString(secs % 60)

\* formatTime (lines 43-47); its parameter is called seconds in the source.
formatTime(secs) ==
    LET mins == secs \div 60
        rest == secs % 60 IN
    padStart(toString(mins), 2, "0") \o << ":" >> \o padStart(toString(rest), 2, "0")

NewHandle == CHOOSE h \in 1..(Cardinality(intervals) + 1) : h \notin intervals

startTimer ==
    /\ timerRef' = NewHandle
    /\ intervals' = intervals \cup {NewHandle}

stopTimer ==
    /\ intervals' = IF timerRef # 0 THEN intervals \ {timerRef} ELSE intervals
    /\ timerRef' = 0

\* startRecording up to its await: the getUserMedia request is issued.
startRecordingCall ==
    /\ pendingStarts' = pendingStarts + 1
    /\ UNCHANGED << isRecording, isPaused, recordingTime, transcription, audioBlob,
                    mediaRecorderRef, streamRef, chunksRef, timerRef, recorders,
                    liveStreams, intervals, stopTasks, timeouts,
                    toasts >>

\* startRecording after the await resolved with a new stream.
startRecordingResolved ==
    LET id == Len(recorders) + 1 IN
    /\ pendingStarts' = pendingStarts - 1
    /\ streamRef' = id
    /\ liveStreams' = liveStreams \cup {id}
    /\ recorders' = Append(recorders, "recording")
    /\ mediaRecorderRef' = id
    /\ chunksRef' = << >>
    /\ isRecording' = SetState(isRecording, TRUE)
    /\ isPaused' = SetState(isPaused, FALSE)
    /\ startTimer
    /\ toasts' = Toast(toasts, "started")
    /\ UNCHANGED << recordingTime, transcription, audioBlob, stopTasks, timeouts >>

\* A catch block that finds the recording flag already set and leaves it.
startRecordingCatch_FlagLeftSet ==
    /\ pendingStarts' = pendingStarts - 1
    /\ toasts' = Toast(toasts, "error")
    /\ isRecording' = TRUE
    /\ UNCHANGED << isPaused, recordingTime, transcription, audioBlob,
                    mediaRecorderRef, streamRef, chunksRef, timerRef, recorders,
                    liveStreams, intervals, stopTasks, timeouts >>

\* startRecording's catch block: the await rejected.
startRecordingCatch ==
    /\ pendingStarts' = pendingStarts - 1
    /\ toasts' = Toast(toasts, "error")
    /\ UNCHANGED << isRecording, isPaused, recordingTime, transcription, audioBlob,
                    mediaRecorderRef, streamRef, chunksRef, timerRef, recorders,
                    liveStreams, intervals, stopTasks, timeouts >>

\* pauseRecording: one handler that toggles.  MediaRecorder.pause() and
\* resume() throw InvalidStateError on an inactive recorder, which ends the handler.
pauseRecording ==
    IF mediaRecorderRef # 0 /\ isRecording /\ recorders[mediaRecorderRef] # "inactive"
    THEN IF isPaused
         THEN /\ recorders' = [recorders EXCEPT ![mediaRecorderRef] = "recording"]
              /\ startTimer
              /\ isPaused' = FALSE
              /\ toasts' = Toast(toasts, "resumed")
              /\ UNCHANGED << isRecording, recordingTime, transcription, audioBlob,
                              mediaRecorderRef, streamRef, chunksRef, liveStreams,
                              pendingStarts, stopTasks, timeouts >>
         ELSE /\ recorders' = [recorders EXCEPT ![mediaRecorderRef] = "paused"]
              /\ stopTimer
              /\ isPaused' = TRUE
              /\ toasts' = Toast(toasts, "paused")
              /\ UNCHANGED << isRecording, recordingTime, transcription, audioBlob,
                              mediaRecorderRef, streamRef, chunksRef, liveStreams,
                              pendingStarts, stopTasks, timeouts >>
    ELSE UNCHANGED progVars

\* stopRecording.  MediaRecorder.stop() makes the recorder inactive and queues
\* the task that fires its last dataavailable event and then its stop event.
\* stopRecording without setIsPaused(false).
stopRecording_PausedLeftSet ==
    IF mediaRecorderRef # 0 /\ isRecording
    THEN /\ recorders' = [recorders EXCEPT ![mediaRecorderRef] = "inactive"]
         /\ stopTasks' = IF recorders[mediaRecorderRef] # "inactive"
                         THEN stopTasks \cup {mediaRecorderRef}
                         ELSE stopTasks
         /\ stopTimer
         /\ isRecording' = FALSE
         /\ liveStreams' = IF streamRef # 0 THEN liveStreams \ {streamRef}
                           ELSE liveStreams
         /\ toasts' = Toast(toasts, "stopped")
         /\ UNCHANGED << isPaused, recordingTime, transcription, audioBlob,
                         mediaRecorderRef, streamRef, chunksRef, pendingStarts,
                         timeouts >>
    ELSE UNCHANGED progVars

stopRecording ==
    IF mediaRecorderRef # 0 /\ isRecording
    THEN /\ recorders' = [recorders EXCEPT ![mediaRecorderRef] = "inactive"]
         /\ stopTasks' = IF recorders[mediaRecorderRef] # "inactive"
                         THEN stopTasks \cup {mediaRecorderRef}
                         ELSE stopTasks
         /\ stopTimer
         /\ isRecording' = FALSE
         /\ isPaused' = FALSE
         /\ liveStreams' = IF streamRef # 0 THEN liveStreams \ {streamRef}
                           ELSE liveStreams
         /\ toasts' = Toast(toasts, "stopped")
         /\ UNCHANGED << recordingTime, transcription, audioBlob, mediaRecorderRef,
                         streamRef, chunksRef, pendingStarts, timeouts >>
    ELSE UNCHANGED progVars

resetRecording ==
    /\ recordingTime' = 0
    /\ transcription' = 0
    /\ audioBlob' = Null
    /\ isRecording' = FALSE
    /\ isPaused' = FALSE
    /\ stopTimer
    /\ UNCHANGED << mediaRecorderRef, streamRef, chunksRef, recorders, liveStreams,
                    pendingStarts, stopTasks, timeouts, toasts >>

\* mediaRecorder.ondataavailable: chunksRef.current after an event of the given size.
\* ondataavailable without the test of the size.
ondataavailable_NoSizeCheck(chunks, chunk, size) == Append(chunks, chunk)

ondataavailable(chunks, chunk, size) ==
    IF size > 0 THEN Append(chunks, chunk) ELSE chunks

\* mediaRecorder.onstop: the blob built from the chunks held at that moment.
onstopBlob(chunks) == Blob(chunks)

----------------------------------------------------------------------------
\* The data of the next event of recorder r: recorder, position, size.
NextChunk(r, size) == << r, Len(delivered[r]) + 1, size >>

\* Sizes a dataavailable event may carry, within the bound on non-empty chunks.
Sizes == IF TotalChunks < MaxChunks THEN {0, 1} ELSE {0}

Starts == pendingStarts + toasts["started"] + toasts["error"]

\* A user request: the control that is rendered dispatches it to its handler;
\* a request no rendered control answers changes nothing and is recorded in refused.
\* The record is dropped by Ignored before anything else happens.
Start ==
    /\ ~unmounted
    /\ refused = "none"
    /\ IF StartOffered
       THEN /\ Starts < MaxStarts
            /\ startRecordingCall
            /\ UNCHANGED refused
       ELSE /\ UNCHANGED progVars
            /\ refused' = "start"
    /\ UNCHANGED << fmtVars, unmounted, delivered, stopped >>

Pause ==
    /\ ~unmounted
    /\ refused = "none"
    /\ IF PauseOffered
       THEN /\ toasts["paused"] + toasts["resumed"] < MaxToggles
            /\ pauseRecording
            /\ UNCHANGED refused
       ELSE /\ UNCHANGED progVars
            /\ refused' = "pause"
    /\ UNCHANGED << fmtVars, unmounted, delivered, stopped >>

Resume ==
    /\ ~unmounted
    /\ refused = "none"
    /\ IF ResumeOffered
       THEN /\ toasts["paused"] + toasts["resumed"] < MaxToggles
            /\ pauseRecording
            /\ UNCHANGED refused
       ELSE /\ UNCHANGED progVars
            /\ refused' = "resume"
    /\ UNCHANGED << fmtVars, unmounted, delivered, stopped >>

Stop ==
    /\ ~unmounted
    /\ refused = "none"
    /\ IF StopOffered
       THEN /\ stopRecording
            /\ stopped' = TRUE
            /\ UNCHANGED refused
       ELSE /\ UNCHANGED << progVars, stopped >>
            /\ refused' = "stop"
    /\ UNCHANGED << fmtVars, unmounted, delivered >>

Reset ==
    /\ ~unmounted
    /\ refused = "none"
    /\ IF ResetOffered
       THEN /\ resetRecording
            /\ stopped' = FALSE
            /\ UNCHANGED refused
       ELSE /\ UNCHANGED << progVars, stopped >>
            /\ refused' = "reset"
    /\ UNCHANGED << fmtVars, unmounted, delivered >>

Ignored ==
    /\ refused # "none"
    /\ refused' = "none"
    /\ UNCHANGED << progVars, fmtVars, unmounted, delivered, stopped >>

\* The cleanup returned by the component's effect: clearInterval on the handle
\* in timerRef and stop() on every track of the stream in streamRef.  A
\* MediaRecorder whose stream's tracks have all ended stops by itself, which
\* queues its stop task.
useEffectCleanup ==
    LET ends == streamRef # 0 /\ streamRef \in liveStreams
                /\ recorders[streamRef] # "inactive" IN
    /\ intervals' = IF timerRef # 0 THEN intervals \ {timerRef} ELSE intervals
    /\ liveStreams' = IF streamRef # 0 THEN liveStreams \ {streamRef} ELSE liveStreams
    /\ recorders' = IF ends THEN [recorders EXCEPT ![streamRef] = "inactive"]
                            ELSE recorders
    /\ stopTasks' = IF ends THEN stopTasks \cup {streamRef} ELSE stopTasks
    /\ UNCHANGED << isRecording, isPaused, recordingTime, transcription, audioBlob,
                    mediaRecorderRef, streamRef, chunksRef, timerRef, pendingStarts,
                    timeouts, toasts >>

\* The component is unmounted.
Unmount ==
    /\ ~unmounted
    /\ refused = "none"
    /\ unmounted' = TRUE
    /\ useEffectCleanup
    /\ UNCHANGED << fmtVars, delivered, stopped, refused >>

\* getUserMedia resolves.
Grant ==
    /\ refused = "none"
    /\ pendingStarts > 0
    /\ startRecordingResolved
    /\ delivered' = Append(delivered, << >>)
    /\ stopped' = SetState(stopped, FALSE)
    /\ UNCHANGED << fmtVars, unmounted, refused >>

\* getUserMedia rejects (NotAllowedError, NotFoundError, ...).
Deny ==
    /\ refused = "none"
    /\ pendingStarts > 0
    /\ startRecordingCatch
    /\ UNCHANGED << fmtVars, unmounted, delivered, stopped, refused >>

\* The callback of one active interval: setRecordingTime(prev => prev + 1).
Tick(i) ==
    /\ refused = "none"
    /\ i \in intervals
    /\ recordingTime < MaxTime
    /\ recordingTime' = SetState(recordingTime, recordingTime + 1)
    /\ UNCHANGED << fmtVars, unmounted, isRecording, isPaused, transcription, audioBlob,
                    mediaRecorderRef, streamRef, chunksRef, timerRef, recorders,
                    liveStreams, intervals, pendingStarts, stopTasks,
                    timeouts, toasts, delivered, stopped, refused >>

\* A recorder that is recording emits a dataavailable event.
DataAvailable(r, size) ==
    /\ refused = "none"
    /\ recorders[r] = "recording"
    /\ chunksRef' = ondataavailable(chunksRef, NextChunk(r, size), size)
    /\ delivered' = [delivered EXCEPT ![r] = ondataavailable(@, NextChunk(r, size), size)]
    /\ UNCHANGED << fmtVars, unmounted, isRecording, isPaused, recordingTime, transcription, audioBlob,
                    mediaRecorderRef, streamRef, timerRef, recorders, liveStreams,
                    intervals, pendingStarts, stopTasks, timeouts,
                    toasts, stopped, refused >>

\* A stop event whose handler builds the blob but never calls simulateTranscription.
StopTask_NoTranscription(r, size) ==
    /\ refused = "none"
    /\ r \in stopTasks
    /\ stopTasks' = stopTasks \ {r}
    /\ chunksRef' = ondataavailable(chunksRef, NextChunk(r, size), size)
    /\ delivered' = [delivered EXCEPT ![r] = ondataavailable(@, NextChunk(r, size), size)]
    /\ audioBlob' = SetState(audioBlob, onstopBlob(chunksRef'))
    /\ UNCHANGED << fmtVars, unmounted, isRecording, isPaused, recordingTime, transcription,
                    mediaRecorderRef, streamRef, timerRef, recorders, liveStreams,
                    intervals, pendingStarts, toasts, stopped, refused, timeouts >>

\* The stop task of recorder r runs: its last dataavailable event, then its stop
\* event, whose handler builds the blob and calls simulateTranscription.
StopTask(r, size) ==
    /\ refused = "none"
    /\ r \in stopTasks
    /\ stopTasks' = stopTasks \ {r}
    /\ chunksRef' = ondataavailable(chunksRef, NextChunk(r, size), size)
    /\ delivered' = [delivered EXCEPT ![r] = ondataavailable(@, NextChunk(r, size), size)]
    /\ audioBlob' = SetState(audioBlob, onstopBlob(chunksRef'))
    /\ timeouts' = timeouts + 1
    /\ UNCHANGED << fmtVars, unmounted, isRecording, isPaused, recordingTime, transcription,
                    mediaRecorderRef, streamRef, timerRef, recorders, liveStreams,
                    intervals, pendingStarts, toasts, stopped, refused >>

\* The setTimeout callback of simulateTranscription runs.
Transcribed(sample) ==
    /\ refused = "none"
    /\ timeouts > 0
    /\ timeouts' = timeouts - 1
    /\ transcription' = SetState(transcription, sample)
    /\ toasts' = Toast(toasts, "transcribed")
    /\ UNCHANGED << fmtVars, unmounted, isRecording, isPaused, recordingTime, audioBlob,
                    mediaRecorderRef, streamRef, chunksRef, timerRef, recorders,
                    liveStreams, intervals, pendingStarts, stopTasks,
                    delivered, stopped, refused >>

Next ==
    \/ Start
    \/ Grant
    \/ Deny
    \/ Pause
    \/ Resume
    \/ Stop
    \/ Reset
    \/ Ignored
    \/ Unmount
    \/ \E i \in intervals : Tick(i)
    \/ \E r \in 1..Len(recorders) : \E size \in Sizes : DataAvailable(r, size)
    \/ \E r \in stopTasks : \E size \in Sizes : StopTask(r, size)
    \/ \E sample \in 1..NumSamples : Transcribed(sample)

Spec == Init /\ [][Next]_vars

\* The mounted component with a user who uses only the controls that are
\* rendered.  The host runs every queued recorder stop task and every pending
\* timeout callback: neither can be cancelled by the component.
LiveNext ==
    \/ Start /\ StartOffered
    \/ Grant
    \/ Deny
    \/ Pause /\ PauseOffered
    \/ Resume /\ ResumeOffered
    \/ Stop /\ StopOffered
    \/ Reset /\ ResetOffered
    \/ \E i \in intervals : Tick(i)
    \/ \E r \in 1..Len(recorders) : \E size \in Sizes : DataAvailable(r, size)
    \/ \E r \in stopTasks : \E size \in Sizes : StopTask(r, size)
    \/ \E sample \in 1..NumSamples : Transcribed(sample)

LiveSpec ==
    /\ Init
    /\ [][LiveNext]_vars
    /\ WF_vars(\E r \in stopTasks : \E size \in Sizes : StopTask(r, size))
    /\ WF_vars(\E sample \in 1..NumSamples : Transcribed(sample))

----------------------------------------------------------------------------
\* formatTime on its own: the component is as constructed, the argument is any
\* whole number of seconds up to MaxSeconds, and the call stores its result.
FormatInit ==
    /\ isRecording = FALSE
    /\ isPaused = FALSE
    /\ recordingTime = 0
    /\ transcription = 0
    /\ audioBlob = Null
    /\ mediaRecorderRef = 0
    /\ streamRef = 0
    /\ chunksRef = << >>
    /\ timerRef = 0
    /\ recorders = << >>
    /\ liveStreams = {}
    /\ intervals = {}
    /\ pendingStarts = 0
    /\ stopTasks = {}
    /\ timeouts = 0
    /\ toasts = [k \in ToastKinds |-> 0]
    /\ unmounted = FALSE
    /\ seconds \in 0..MaxSeconds
    /\ formatted = << >>
    /\ delivered = << >>
    /\ stopped = FALSE
    /\ refused = "none"

Format ==
    /\ formatted' = formatTime(seconds)
    /\ UNCHANGED << progVars, seconds, unmounted, delivered, stopped, refused >>

FormatNext == Format

FormatSpec == FormatInit /\ [][FormatNext]_vars

TypeOK ==
    /\ isRecording \in BOOLEAN
    /\ isPaused \in BOOLEAN
    /\ recordingTime \in 0..MaxTime
    /\ transcription \in 0..NumSamples
    /\ mediaRecorderRef \in 0..Len(recorders)
    /\ streamRef \in 0..Len(recorders)
    /\ unmounted \in BOOLEAN
    /\ seconds \in 0..MaxSeconds
    /\ ~unmounted => timerRef \in {0} \cup intervals
    /\ liveStreams \subseteq 1..Len(recorders)
    /\ stopTasks \subseteq 1..Len(recorders)
    /\ Len(delivered) = Len(recorders)
    /\ Starts <= MaxStarts

----------------------------------------------------------------------------
\* C1: recordingTime changes only by a tick of +1 while the state is Recording
\* (or by reset() clearing it); no tick moves it while Idle, Paused or Stopped.
C1_TimeAdvancesOnlyWhileRecording ==
    [][recordingTime' # recordingTime =>
          \/ State = "Recording" /\ recordingTime' = recordingTime + 1
          \/ Reset]_vars

\* C2: start() requested in any state but Idle (Recording, Paused, or Stopped and
\* not yet reset) changes nothing: no stream is requested, no field moves.
C2_StartOnlyFromIdle ==
    [][Start /\ State # "Idle" => UNCHANGED progVars]_vars

\* C3: a start() whose device request fails commits nothing: no flag, counter,
\* chunk, stream, recorder, blob or transcript changes, the lifecycle state stays
\* what it was (Idle stays Idle), and exactly one failure notification is emitted.
C3_FailedStartCommitsNothing ==
    [][pendingStarts' < pendingStarts /\ Len(recorders') = Len(recorders) =>
          /\ UNCHANGED << isRecording, isPaused, recordingTime, transcription,
                          audioBlob, mediaRecorderRef, streamRef, chunksRef,
                          timerRef, recorders, liveStreams, intervals, stopTasks,
                          timeouts >>
          /\ State' = State
          /\ toasts' = [toasts EXCEPT !["error"] = @ + 1]]_vars

\* A first start() has failed: Idle, nothing created, one failure notification.
C3_Witness ==
    /\ State = "Idle"
    /\ toasts["error"] = 1
    /\ toasts["started"] = 0
    /\ pendingStarts = 0
    /\ recorders = << >>

\* C4: the blob built when a recording stops is exactly the chunks that
\* recording's recorder emitted, in arrival order, nothing lost or added.
C4_BlobIsTheSessionsChunks ==
    [][\A r \in stopTasks \ stopTasks' : audioBlob' = Blob(delivered'[r])]_vars

\* C5: the blob is absent in Idle, Recording and Paused, and is assigned only
\* once per session, when that session is stopped.
C5_BlobSetOnceAtStop ==
    [][/\ State' \in {"Idle", "Recording", "Paused"} => audioBlob'.isNull
       /\ audioBlob' # audioBlob /\ ~audioBlob'.isNull =>
              State = "Stopped" /\ audioBlob.isNull]_vars

\* C6: a non-empty transcription implies a blob is present.
C6_TranscriptOnlyWithBlob ==
    transcription # 0 => ~audioBlob.isNull

\* C7: reset() in the Stopped state returns every field to its Idle default:
\* time 0, no chunks, no blob, no transcript, state Idle, no counter running.
C7_ResetRestoresDefaults ==
    [][Reset /\ ResetOffered /\ State = "Stopped" =>
          /\ recordingTime' = 0
          /\ chunksRef' = << >>
          /\ audioBlob' = Null
          /\ transcription' = 0
          /\ State' = "Idle"
          /\ timerRef' = 0
          /\ intervals' = {}]_vars

\* C8: reset() requested while the state is Recording changes nothing.
C8_ResetIsNoOpWhileRecording ==
    [][Reset /\ State = "Recording" => UNCHANGED progVars]_vars

\* reset() was requested while Recording, with something to reset.
C8_Witness ==
    /\ refused = "reset"
    /\ State = "Recording"
    /\ recordingTime > 0
    /\ chunksRef # << >>

C10_StopReleasesEverything ==
    [][Stop /\ State \in {"Recording", "Paused"} =>
          /\ intervals' = {}
          /\ liveStreams' = {}
          /\ State' = "Stopped"]_vars

\* C11: once the component is unmounted, whatever state it was in, no counter
\* interval is active and no capture stream is live, then or at any later time.
C11_TeardownReleasesEverything ==
    unmounted => intervals = {} /\ liveStreams = {}

C13_OneNotificationPerEvent ==
    [][/\ toasts'["started"] - toasts["started"] =
              (IF Len(recorders') > Len(recorders) THEN 1 ELSE 0)
       /\ toasts'["error"] - toasts["error"] =
              (IF pendingStarts' < pendingStarts /\ Len(recorders') = Len(recorders)
               THEN 1 ELSE 0)
       /\ toasts'["paused"] - toasts["paused"] =
              (IF Pause /\ State = "Recording" THEN 1 ELSE 0)
       /\ toasts'["resumed"] - toasts["resumed"] =
              (IF Resume /\ State = "Paused" THEN 1 ELSE 0)
       /\ toasts'["stopped"] - toasts["stopped"] =
              (IF Stop /\ State \in {"Recording", "Paused"} THEN 1 ELSE 0)
       /\ toasts'["transcribed"] + timeouts' + Cardinality(stopTasks') =
              toasts'["stopped"]]_vars

\* C14: formatTime(s) is floor(s / 60) in decimal, left-padded with zeros to at
\* least two digits, then a colon, then s mod 60 left-padded with zeros to
\* exactly two digits; 0 gives "00:00", 59 "00:59", 60 "01:00", 3661 "61:01".
C14_FormatTimeIsMinutesColonSeconds ==
    formatted # << >> =>
        LET colons == {i \in 1..Len(formatted) : formatted[i] = ":"}
            colon == CHOOSE i \in colons : TRUE
            minutes == SubSeq(formatted, 1, colon - 1)
            rest == SubSeq(formatted, colon + 1, Len(formatted))
            IsDigit(c) == \E d \in 1..10 : Digits[d] = c
            DigitOf(c) == (CHOOSE d \in 1..10 : Digits[d] = c) - 1
            RECURSIVE Value(_)
            Value(str) == IF str = << >> THEN 0
                          ELSE 10 * Value(SubSeq(str, 1, Len(str) - 1))
                               + DigitOf(str[Len(str)])
        IN /\ Cardinality(colons) = 1
           /\ \A i \in 1..Len(formatted) : i \notin colons => IsDigit(formatted[i])
           /\ Len(minutes) >= 2
           /\ Len(minutes) > 2 => minutes[1] # "0"
           /\ Value(minutes) = seconds \div 60
           /\ Len(rest) = 2
           /\ Value(rest) = seconds % 60
           /\ seconds = 0 => formatted = << "0", "0", ":", "0", "0" >>
           /\ seconds = 59 => formatted = << "0", "0", ":", "5", "9" >>
           /\ seconds = 60 => formatted = << "0", "1", ":", "0", "0" >>
           /\ seconds = 3661 => formatted = << "6", "1", ":", "0", "1" >>

C14_Witness ==
    seconds = 3661 /\ formatted = << "6", "1", ":", "0", "1" >>

\* C15: pause() from Recording gives Paused with no counter interval active,
\* resume() from Paused gives Recording with exactly one, and neither changes
\* the elapsed time or the chunks, so a pause() followed at once by resume()
\* restores Recording with the same time, the same chunks and one interval.
C15_PauseResumeRoundTrip ==
    [][/\ Pause /\ State = "Recording" =>
              /\ State' = "Paused"
              /\ intervals' = {}
              /\ recordingTime' = recordingTime /\ chunksRef' = chunksRef
       /\ Resume /\ State = "Paused" =>
              /\ State' = "Recording"
              /\ Cardinality(intervals') = 1
              /\ recordingTime' = recordingTime /\ chunksRef' = chunksRef]_vars

\* C16: in every reachable state at most one counter interval is active, and
\* one is active exactly when the state is Recording; overlapping start()
\* calls and a reset() or stop() during a pending start() are included.
C16_OneIntervalIffRecording ==
    /\ Cardinality(intervals) <= 1
    /\ intervals # {} <=> State = "Recording"

\* C17: a transcription task scheduled by a stop() never writes into a later
\* session: after reset() the transcription stays empty until a later recording
\* has been stopped, and no task changes it while a recording is Recording or
\* Paused.
C17_TranscriptionStaysInItsSession ==
    [][transcription' # transcription /\ transcription' # 0 =>
           State = "Stopped" /\ State' = "Stopped"]_vars

\* C18: in every reachable state isPaused implies isRecording: the paused flag
\* is never true while the controller is Idle or Stopped.
C18_PausedImpliesRecording ==
    isPaused => isRecording

C18_Witness ==
    /\ State = "Stopped" /\ ~isPaused
    /\ toasts["paused"] = 1 /\ toasts["resumed"] = 0 /\ toasts["stopped"] = 1

\* C19: the chunk sequence never contains an empty chunk: a dataavailable
\* event of size 0 leaves the sequence unchanged, and an event of size > 0
\* appends exactly one element, the event's data, at the end.
C19_NoEmptyChunk ==
    /\ [](\A i \in 1..Len(chunksRef) : chunksRef[i][3] > 0)
    /\ [][\A r \in 1..Len(recorders) : \A size \in {0, 1} :
              DataAvailable(r, size) \/ StopTask(r, size) =>
                  IF size = 0 THEN chunksRef' = chunksRef
                  ELSE chunksRef' = chunksRef \o << NextChunk(r, size) >>]_vars

C19_Witness ==
    /\ Len(chunksRef) = MaxChunks
    /\ \A i \in 1..Len(chunksRef) : chunksRef[i][3] > 0
    /\ chunksRef[1][2] = 1 /\ chunksRef[2][2] = 2

====
